---- MODULE Spec2Model ----
(***************************************************************************)
(* Model of the event scheduler of src/public/main.js (first listing,      *)
(* lines 1-242): the push-API handler that appends a prioritised batch to  *)
(* eventQueue and removes duplicates, and the interval callback            *)
(* checkEventQueueAndMakeNecessaryDomUpdate that expires stale messages    *)
(* and forwards at most one event to the DOM helpers.                      *)
(*                                                                         *)
(* Times are integers in milliseconds, as Date.getTime() returns them.     *)
(***************************************************************************)
EXTENDS Integers, Sequences, FiniteSets, TLC

\* ------------------------------------------------------------------ bounds
MaxId == 2
MaxBatch == 2
MaxClockSteps == 1
MaxDelivered == 3
MaxQueue == 3

\* ------------------------------------------------------- program constants
defaultIntervalTimeout == 500
ExpirySeconds == 20
MsPerSecond == 1000

\* API_EVENT_TYPE, imported from api.js
ANIMATED_GIFT == "ag"
MESSAGE == "m"
GIFT == "g"
API_EVENT_TYPE == {ANIMATED_GIFT, MESSAGE, GIFT}

\* globalInterval = null
NULL == 0

VARIABLES
  eventQueue,      \* let eventQueue = []
  globalInterval,  \* let globalInterval = null, or the handle setInterval returned
  intervals,       \* handles of the intervals the host runtime keeps firing
  now,             \* last reading of new Date().getTime()
  lastOp,          \* which callback ran last: "init", "ingest" or "tick"
  prevQueue,       \* eventQueue when the last callback started
  lastPushed,      \* number of events the last handler call pushed
  prunedQueue,     \* eventQueue after the expiry loop of the last tick
  calls,           \* the DOM helper calls the last callback made, in order
  animPlaying,     \* what isAnimatingGiftUI() answered in the last tick
  animPending,     \* what isPossiblyAnimatingGift() answered in the last tick
  result,          \* how the last tick ended: "false", "true", "TypeError"; "none"
  lastBatch,       \* the batch the last handler call received (ingest-only runs)
  delivered,       \* the non-empty batches received so far (ingest-only runs)
  displayed        \* ids passed to addMessage before the last callback (runs that
                   \* keep the history of displays)

vars == <<eventQueue, globalInterval, intervals, now, lastOp, prevQueue, lastPushed,
          prunedQueue, calls, animPlaying, animPending, result, lastBatch, delivered,
          displayed>>

\* ------------------------------------------------------------------ inputs
ExpiryMs == ExpirySeconds * MsPerSecond
\* timestamps a message may carry: at the first clock reading the older one is
\* exactly 20 s old, at the next one it is older and the other is exactly 20 s old
OldStamp == 0 - ExpiryMs
Stamps == {OldStamp, defaultIntervalTimeout - ExpiryMs}
Clock == {k * defaultIntervalTimeout : k \in 0..MaxClockSteps}
Payloads == {"a", "b"}

Event(i, ty, ts, p) == [id |-> i, type |-> ty, timestamp |-> ts, payload |-> p]

\* events of the runs from construction: a message that is exactly 20 s old at
\* the first clock reading, or an animated gift
SpecEvents ==
  {Event(i, ty, OldStamp, "a") : i \in 1..MaxId, ty \in {ANIMATED_GIFT, MESSAGE}}

\* events of the ingest-only runs. The handler compares a type with
\* ANIMATED_GIFT only and reads no timestamp; the payload tells two deliveries
\* of one id apart
IngestEvents ==
  {Event(i, ty, OldStamp, p) : i \in 1..MaxId, ty \in {ANIMATED_GIFT, MESSAGE}, p \in Payloads}

\* events of the queues the tick-only runs start from. Only a message's
\* timestamp is read
QueueEvents ==
  {Event(i, MESSAGE, ts, "a") : i \in 1..MaxQueue, ts \in Stamps}
    \cup {Event(i, ty, OldStamp, "a") : i \in 1..MaxQueue, ty \in {ANIMATED_GIFT, GIFT}}

SeqsUpTo(S, n) == UNION {[1..k -> S] : k \in 0..n}

NoDuplicateIdsIn(q) == \A i, j \in DOMAIN q : i # j => q[i].id # q[j].id

Min(a, b) == IF a <= b THEN a ELSE b

\* ----------------------------------------------------------- pure helpers
\* Array.from(new Set(array)): the distinct values in order of first insertion
RECURSIVE ArrayFromSet(_)
ArrayFromSet(s) ==
  IF s = <<>> THEN <<>>
  ELSE LET r == ArrayFromSet(SubSeq(s, 1, Len(s) - 1))
           x == s[Len(s)]
       IN IF \E i \in DOMAIN r : r[i] = x THEN r ELSE Append(r, x)

\* the last match instead of the first
findLast(q, id) ==
  q[CHOOSE i \in DOMAIN q : q[i].id = id /\ \A j \in (i + 1)..Len(q) : q[j].id # id]

\* array.find(item => item.id === id): the first match
find(q, id) ==
  q[CHOOSE i \in DOMAIN q : q[i].id = id /\ \A j \in 1..(i - 1) : q[j].id # id]

removeDuplicateEventsNoOp(q) == q

removeDuplicateEvents(q) ==
  LET ids == ArrayFromSet([i \in DOMAIN q |-> q[i].id])
  IN [i \in DOMAIN ids |-> find(q, ids[i])]

IsAnimatedGift(e) == e.type = ANIMATED_GIFT
IsNotAnimatedGift(e) == e.type # ANIMATED_GIFT

sortEventsOthersFirst(events) ==
  SelectSeq(events, IsNotAnimatedGift) \o SelectSeq(events, IsAnimatedGift)

sortEvents(events) ==
  LET animatedGiftEvents == SelectSeq(events, IsAnimatedGift)
      otherEvents == SelectSeq(events, IsNotAnimatedGift)
  IN animatedGiftEvents \o otherEvents

\* the queue the handler leaves: lines 14-26
handlerQueueSortAll(q, events) ==
  IF Len(events) > 0 THEN removeDuplicateEvents(sortEvents(q \o events)) ELSE q

handlerQueue(q, events) ==
  IF Len(events) > 0 THEN removeDuplicateEvents(q \o sortEvents(events)) ELSE q

\* the handle of a new interval: one no live interval has
setInterval(live) == CHOOSE h \in 1..(Cardinality(live) + 1) : h \notin live

\* the negation of line 32 dropped
handlerStartsIntervalInverted(events) == Len(events) > 0 /\ globalInterval # NULL

\* the length check of line 14 not applied to the timer
handlerStartsIntervalOnEmptyBatch(events) == globalInterval = NULL

\* an interval per batch, whatever the handle
handlerStartsIntervalPerBatch(events) == Len(events) > 0

\* the timer part of the handler: lines 32-37
handlerStartsInterval(events) == Len(events) > 0 /\ globalInterval = NULL

\* ------------------------------------------------------------- tick helpers
\* index (from 0) of the first entry that is no animated gift, or -1
getFirstNotAnimatedGiftEventIndexLast(q) ==
  IF \E i \in DOMAIN q : q[i].type # ANIMATED_GIFT
  THEN (CHOOSE i \in DOMAIN q :
          q[i].type # ANIMATED_GIFT /\ \A j \in (i + 1)..Len(q) : q[j].type = ANIMATED_GIFT) - 1
  ELSE 0 - 1

getFirstNotAnimatedGiftEventIndex(q) ==
  IF \E i \in DOMAIN q : q[i].type # ANIMATED_GIFT
  THEN (CHOOSE i \in DOMAIN q :
          q[i].type # ANIMATED_GIFT /\ \A j \in 1..(i - 1) : q[j].type = ANIMATED_GIFT) - 1
  ELSE 0 - 1

\* new Date().getTime() - new Date(timestamp).getTime(), with the clock reading t
differenceInMilliseconds(t, timestamp) == t - timestamp

olderThan20SecondsInclusive(t, timestamp) ==
  differenceInMilliseconds(t, timestamp) >= ExpirySeconds * MsPerSecond

\* differenceInSeconds > 20, where differenceInSeconds is the difference in
\* milliseconds divided by 1000: for whole milliseconds d, d / 1000 > 20 is
\* d > 20 * 1000
olderThan20Seconds(t, timestamp) ==
  differenceInMilliseconds(t, timestamp) > ExpirySeconds * MsPerSecond

\* every stale message dropped, wherever it stands in the queue
removeEventsWithTypeMessageOlderThan20Seconds(q, t) ==
  LET Fresh(e) == ~(e.type = MESSAGE /\ olderThan20Seconds(t, e.timestamp))
      left == SelectSeq(q, Fresh)
  IN [queue |-> left, threw |-> left = <<>>]

\* The expiry loop. It reads eventQueue[0].type before every round: once the
\* loop has shifted the last entry away, eventQueue[0] is undefined and the
\* read throws a TypeError.
RECURSIVE ignoreFirstEventWithTypeMessageOlderThan20Seconds(_, _)
ignoreFirstEventWithTypeMessageOlderThan20Seconds(q, t) ==
  IF q = <<>> THEN [queue |-> q, threw |-> TRUE]
  ELSE IF q[1].type = MESSAGE /\ olderThan20Seconds(t, q[1].timestamp)
       THEN ignoreFirstEventWithTypeMessageOlderThan20Seconds(Tail(q), t)
       ELSE [queue |-> q, threw |-> FALSE]

addMessage(e) == [fn |-> "addMessage", event |-> e]
animateGift(e) == [fn |-> "animateGift", event |-> e]

processNormalEvent(q) == [queue |-> Tail(q), calls |-> <<addMessage(q[1])>>]

isAnyAnimatingGiftNotPlayingEither(playing, pending) == ~playing \/ ~pending

isAnyAnimatingGiftNotPlaying(playing, pending) == ~playing /\ ~pending

processAnimatedGiftEventAnimateFirst(q) ==
  [queue |-> Tail(q), calls |-> <<animateGift(q[1]), addMessage(q[1])>>]

\* eventQueue[0] read where eventQueue.shift() stands: the entry stays queued
processAnimatedGiftEventNoShift(q) ==
  [queue |-> q, calls |-> <<addMessage(q[1]), animateGift(q[1])>>]

processAnimatedGiftEvent(q) ==
  LET currentEvent == q[1]
  IN [queue |-> Tail(q), calls |-> <<addMessage(currentEvent), animateGift(currentEvent)>>]

\* eventQueue.splice(index, 1), index counted from 0
splice1(q, index) == SubSeq(q, 1, index) \o SubSeq(q, index + 2, Len(q))

processFirstNotAnimatedGiftEvent(q) ==
  LET index == getFirstNotAnimatedGiftEventIndex(q)
  IN IF index # 0 - 1
     THEN [queue |-> splice1(q, index), calls |-> <<addMessage(q[index + 1])>>]
     ELSE [queue |-> q, calls |-> <<>>]

isFirstEventInQueueAnAnimatedGift(q) == q[1].type = ANIMATED_GIFT

\* lines 230-241, on the queue the expiry loop left
emitOneFallThrough(q, playing, pending) ==
  LET r == IF isFirstEventInQueueAnAnimatedGift(q)
           THEN IF isAnyAnimatingGiftNotPlaying(playing, pending)
                THEN processAnimatedGiftEvent(q)
                ELSE processFirstNotAnimatedGiftEvent(q)
           ELSE [queue |-> q, calls |-> <<>>]
  IN IF r.queue # <<>>
     THEN [queue |-> Tail(r.queue), calls |-> r.calls \o <<addMessage(r.queue[1])>>]
     ELSE [queue |-> r.queue, calls |-> r.calls \o <<addMessage("undefined")>>]

emitOne(q, playing, pending) ==
  IF isFirstEventInQueueAnAnimatedGift(q)
  THEN IF isAnyAnimatingGiftNotPlaying(playing, pending)
       THEN processAnimatedGiftEvent(q)
       ELSE processFirstNotAnimatedGiftEvent(q)
  ELSE processNormalEvent(q)

\* ------------------------------------------------------------------ state
Init ==
  /\ eventQueue = <<>>
  /\ globalInterval = NULL
  /\ intervals = {}
  /\ now = 0
  /\ lastOp = "init"
  /\ prevQueue = <<>>
  /\ lastPushed = 0
  /\ prunedQueue = <<>>
  /\ calls = <<>>
  /\ animPlaying = FALSE
  /\ animPending = FALSE
  /\ result = "none"
  /\ lastBatch = <<>>
  /\ delivered = <<>>
  /\ displayed = {}

\* api.setEventHandler callback, lines 12-40, without the history of batches
handler(events) ==
  /\ eventQueue' = handlerQueue(eventQueue, events)
  /\ IF handlerStartsInterval(events)
     THEN LET h == setInterval(intervals)
          IN globalInterval' = h /\ intervals' = intervals \cup {h}
     ELSE UNCHANGED <<globalInterval, intervals>>
  /\ lastOp' = "ingest"
  /\ prevQueue' = eventQueue
  /\ lastPushed' = Len(events)
  /\ prunedQueue' = <<>>
  /\ calls' = <<>>
  /\ animPlaying' = FALSE
  /\ animPending' = FALSE
  /\ result' = "none"
  /\ UNCHANGED now

EventHandler(events) ==
  /\ handler(events)
  /\ UNCHANGED <<lastBatch, delivered, displayed>>

\* the same callback, remembering the batches it was given
RECURSIVE Flatten(_)
Flatten(ss) == IF ss = <<>> THEN <<>> ELSE ss[1] \o Flatten(Tail(ss))

EventHandlerLogged(events) ==
  /\ handler(events)
  /\ lastBatch' = events
  /\ delivered' = IF Len(events) > 0 THEN Append(delivered, events) ELSE delivered
  /\ UNCHANGED displayed

\* the handle forgotten, the interval left running
stopGlobalIntervalForgetsHandle ==
  /\ UNCHANGED intervals
  /\ globalInterval' = NULL

\* clearInterval(globalInterval); globalInterval = null
stopGlobalInterval ==
  /\ intervals' = intervals \ {globalInterval}
  /\ globalInterval' = NULL

\* the queue taken for empty one entry too early
eventQueueIsEmptyOffByOne(q) == Len(q) <= 1

\* eventQueue.length <= 0
eventQueueIsEmpty(q) == Len(q) <= 0

\* the interval callback, lines 34-36 and 220-242: interval h fires, the clock
\* reads t and the DOM helpers answer playing and pending
checkEventQueueAndMakeNecessaryDomUpdate(h, t, playing, pending) ==
  /\ h \in intervals
  /\ t >= now
  /\ now' = t
  /\ lastOp' = "tick"
  /\ prevQueue' = eventQueue
  /\ lastPushed' = 0
  /\ animPlaying' = playing
  /\ animPending' = pending
  /\ UNCHANGED <<lastBatch, delivered>>
  /\ IF eventQueueIsEmpty(eventQueue)
     THEN /\ stopGlobalInterval
          /\ result' = "false"
          /\ UNCHANGED eventQueue
          /\ prunedQueue' = <<>>
          /\ calls' = <<>>
     ELSE LET pruned == ignoreFirstEventWithTypeMessageOlderThan20Seconds(eventQueue, t)
          IN /\ UNCHANGED <<globalInterval, intervals>>
             /\ prunedQueue' = pruned.queue
             /\ IF pruned.threw
                THEN /\ eventQueue' = pruned.queue
                     /\ calls' = <<>>
                     /\ result' = "TypeError"
                ELSE LET r == emitOne(pruned.queue, playing, pending)
                     IN /\ eventQueue' = r.queue
                        /\ calls' = r.calls
                        /\ result' = "true"

Ingest == \E events \in SeqsUpTo(SpecEvents, MaxBatch) : EventHandler(events)

Tick ==
  \E h \in intervals, t \in Clock, playing \in BOOLEAN, pending \in BOOLEAN :
    /\ checkEventQueueAndMakeNecessaryDomUpdate(h, t, playing, pending)
    /\ UNCHANGED displayed

Next == Ingest \/ Tick

\* the program from construction
Spec == Init /\ [][Next]_vars

\* the program from construction, with the history of the ids displayed
DisplayedIds(cs) == {cs[i].event.id : i \in {j \in DOMAIN cs : cs[j].fn = "addMessage"}}

IngestShown ==
  \E events \in SeqsUpTo(SpecEvents, MaxBatch) :
    /\ handler(events)
    /\ UNCHANGED <<lastBatch, delivered>>
    /\ displayed' = displayed \cup DisplayedIds(calls)

TickShown ==
  \E h \in intervals, t \in Clock, playing \in BOOLEAN, pending \in BOOLEAN :
    /\ checkEventQueueAndMakeNecessaryDomUpdate(h, t, playing, pending)
    /\ displayed' = displayed \cup DisplayedIds(calls)

NextShown == IngestShown \/ TickShown

SpecShown == Init /\ [][NextShown]_vars

\* the handler alone, from construction, with the history of its batches
IngestLogged ==
  \E events \in SeqsUpTo(IngestEvents, Min(MaxBatch, MaxDelivered - Len(Flatten(delivered)))) :
    EventHandlerLogged(events)

NextIngest == IngestLogged

SpecIngest == Init /\ [][NextIngest]_vars

\* the interval callback alone, from every queue the handler can have built
\* (single-event batches build any queue without duplicate ids) with the
\* interval running
InitTick ==
  /\ eventQueue \in {q \in SeqsUpTo(QueueEvents, MaxQueue) : NoDuplicateIdsIn(q)}
  /\ globalInterval = 1
  /\ intervals = {1}
  /\ now = 0
  /\ lastOp = "init"
  /\ prevQueue = <<>>
  /\ lastPushed = 0
  /\ prunedQueue = <<>>
  /\ calls = <<>>
  /\ animPlaying = FALSE
  /\ animPending = FALSE
  /\ result = "none"
  /\ lastBatch = <<>>
  /\ delivered = <<>>
  /\ displayed = {}

NextTick == Tick

SpecTick == InitTick /\ [][NextTick]_vars

\* a tick in which both DOM helpers answer that no animation is busy
TickIdle ==
  \E h \in intervals, t \in Clock :
    /\ checkEventQueueAndMakeNecessaryDomUpdate(h, t, FALSE, FALSE)
    /\ UNCHANGED displayed

\* Ingestion has stopped with entries queued. A running interval keeps firing its callback and
\* every animation ends, so while the interval runs, ticks that find no
\* animation busy keep coming.
InitDrain == InitTick /\ eventQueue # <<>>

SpecDrain == InitDrain /\ [][NextTick]_vars /\ WF_vars(TickIdle)

\* ------------------------------------------------------- claims: ingestion
Range(s) == {s[i] : i \in DOMAIN s}
IdsOf(s) == {s[i].id : i \in DOMAIN s}

\* s is b with some entries left out
RECURSIVE IsSubseq(_, _)
IsSubseq(s, b) ==
  IF s = <<>> THEN TRUE
  ELSE IF b = <<>> THEN FALSE
  ELSE IF s[1] = b[1] THEN IsSubseq(Tail(s), Tail(b))
  ELSE IsSubseq(s, Tail(b))

\* what the last handler call added behind the entries that were queued
Contribution ==
  IF Len(eventQueue) > Len(prevQueue)
  THEN SubSeq(eventQueue, Len(prevQueue) + 1, Len(eventQueue))
  ELSE <<>>

\* C1: in every state reached once an ingest or a tick has run to completion,
\* no two entries of the queue have the same id.
C1_NoDuplicateIds ==
  \A i, j \in DOMAIN eventQueue : i # j => eventQueue[i].id # eventQueue[j].id

\* an ingest that dropped duplicates and left two or more entries
C1_Witness ==
  /\ lastOp = "ingest"
  /\ Len(eventQueue) >= 2
  /\ lastPushed > Len(eventQueue) - Len(prevQueue)

\* the deliveries so far, in delivery order
Delivered == Flatten(delivered)

FirstWithId(s, id) ==
  s[CHOOSE i \in DOMAIN s : s[i].id = id /\ \A j \in 1..(i - 1) : s[j].id # id]

\* the first delivered batch that holds the id
FirstBatchWithId(id) ==
  delivered[CHOOSE k \in DOMAIN delivered :
              id \in IdsOf(delivered[k]) /\ \A l \in 1..(k - 1) : id \notin IdsOf(delivered[l])]

\* the entry of batch b that stands first once the animated gifts of b are
\* moved in front of its other events
FirstPrioritisedWithId(b, id) ==
  IF \E i \in DOMAIN b : b[i].id = id /\ b[i].type = ANIMATED_GIFT
  THEN b[CHOOSE i \in DOMAIN b :
           /\ b[i].id = id /\ b[i].type = ANIMATED_GIFT
           /\ \A j \in 1..(i - 1) : ~(b[j].id = id /\ b[j].type = ANIMATED_GIFT)]
  ELSE FirstWithId(b, id)

\* C2 as claimed: with no tick in between, the entry kept for an id is the
\* event with that id that came first in delivery order: first batch holding it,
\* first position in that batch as delivered.
C2_FirstDeliveredKept ==
  /\ IdsOf(eventQueue) = IdsOf(Delivered)
  /\ \A i \in DOMAIN eventQueue :
       eventQueue[i] = FirstWithId(Delivered, eventQueue[i].id)

\* C2 amended: with no tick in between, the queue holds exactly one entry per
\* delivered id, and it is the event of the first batch holding that id that
\* stands first in that batch after the batch's animated gifts are moved to its
\* front: the batch's first animated gift with the id if it has one, else its
\* first event with the id.
C2_FirstAppendedKept ==
  /\ IdsOf(eventQueue) = IdsOf(Delivered)
  /\ Cardinality(IdsOf(eventQueue)) = Len(eventQueue)
  /\ \A i \in DOMAIN eventQueue :
       eventQueue[i] = FirstPrioritisedWithId(FirstBatchWithId(eventQueue[i].id),
                                              eventQueue[i].id)

\* an id delivered in two batches, in the first one as a message ahead of an
\* animated gift, and the animated gift is the entry kept
C2_Witness ==
  /\ Len(delivered) >= 2
  /\ \E id \in IdsOf(delivered[1]) :
       /\ id \in IdsOf(delivered[2])
       /\ Len(delivered[1]) >= 2
       /\ delivered[1][1].id = id /\ delivered[1][1].type = MESSAGE
       /\ delivered[1][2].id = id /\ delivered[1][2].type = ANIMATED_GIFT
       /\ delivered[1][2] \in Range(eventQueue)

GiftsFirst(s) ==
  \A i, j \in DOMAIN s :
    i < j => ~(s[i].type # ANIMATED_GIFT /\ s[j].type = ANIMATED_GIFT)

GiftsOf(s) == SelectSeq(s, IsAnimatedGift)
OthersOf(s) == SelectSeq(s, IsNotAnimatedGift)

\* C3: what a batch adds to the queue has all its animated gifts ahead of all
\* its other events, each of the two groups in the order of the batch as
\* delivered, and it holds every id of the batch that was not queued before.
C3_StablePartition ==
  lastOp = "ingest" =>
    /\ GiftsFirst(Contribution)
    /\ IsSubseq(GiftsOf(Contribution), lastBatch)
    /\ IsSubseq(OthersOf(Contribution), lastBatch)
    /\ IdsOf(Contribution) = IdsOf(lastBatch) \ IdsOf(prevQueue)

\* a batch delivered as (other event, animated gift) that added both
C3_Witness ==
  /\ lastOp = "ingest"
  /\ Len(lastBatch) >= 2
  /\ lastBatch[1].type # ANIMATED_GIFT
  /\ lastBatch[2].type = ANIMATED_GIFT
  /\ Len(Contribution) = 2

\* C4: the queue before an ingest is a prefix of the queue after it.
C4_PrefixKept ==
  lastOp = "ingest" =>
    /\ Len(prevQueue) <= Len(eventQueue)
    /\ SubSeq(eventQueue, 1, Len(prevQueue)) = prevQueue

\* an ingest on a queue led by another event, of a batch that held an id
\* already known and added an animated gift
C4_Witness ==
  /\ lastOp = "ingest"
  /\ prevQueue # <<>>
  /\ prevQueue[1].type # ANIMATED_GIFT
  /\ Len(eventQueue) > Len(prevQueue)
  /\ lastPushed > Len(eventQueue) - Len(prevQueue)
  /\ eventQueue[Len(prevQueue) + 1].type = ANIMATED_GIFT

\* ----------------------------------------------------------- claims: ticks
\* the number of entries at the front of q that are messages older than 20 s
\* at clock reading t
StaleCount(q, t) ==
  CHOOSE k \in 0..Len(q) :
    /\ \A i \in 1..k : q[i].type = MESSAGE /\ t - q[i].timestamp > 20 * 1000
    /\ k < Len(q) => ~(q[k + 1].type = MESSAGE /\ t - q[k + 1].timestamp > 20 * 1000)

\* the queue of the last tick without its expired front
AfterExpiry == SubSeq(prevQueue, StaleCount(prevQueue, now) + 1, Len(prevQueue))

Ticked == lastOp = "tick" /\ prevQueue # <<>>
Busy == animPlaying \/ animPending

CountCalls(fn) == Cardinality({i \in DOMAIN calls : calls[i].fn = fn})

\* C5: a tick on a non-empty queue removes every front message older than 20 s
\* without passing it to a DOM helper, stops at the first front entry that is
\* no message or is at most 20 s old (so not at a message of exactly 20 s), and
\* attempts its emission on what is left.
C5_ExpiryAtFront ==
  Ticked =>
    /\ prunedQueue = AfterExpiry
    /\ IsSubseq(eventQueue, AfterExpiry)
    /\ Len(eventQueue) >= Len(AfterExpiry) - 1
    /\ \A i \in DOMAIN calls : calls[i].event \in Range(AfterExpiry)

\* a tick that expired a front message, stopped at a message exactly 20 s old
\* and emitted
C5_Witness ==
  /\ Ticked
  /\ StaleCount(prevQueue, now) >= 1
  /\ AfterExpiry # <<>>
  /\ AfterExpiry[1].type = MESSAGE
  /\ now - AfterExpiry[1].timestamp = 20 * 1000
  /\ calls # <<>>

\* C6: animateGift is called only in a tick whose front entry after expiry is
\* an animated gift while both isAnimatingGiftUI() and isPossiblyAnimatingGift()
\* answer false; in a tick where either answers true no animation is triggered
\* and the animated gifts of the queue stay, in their order.
C6_AnimationGating ==
  lastOp = "tick" =>
    /\ CountCalls("animateGift") > 0 =>
         /\ AfterExpiry # <<>>
         /\ AfterExpiry[1].type = ANIMATED_GIFT
         /\ ~animPlaying /\ ~animPending
    /\ Busy =>
         /\ CountCalls("animateGift") = 0
         /\ GiftsOf(eventQueue) = GiftsOf(prevQueue)

\* a tick with an animation busy, two animated gifts queued, the front one
\* among them, that emitted another event
C6_Witness ==
  /\ Ticked
  /\ Busy
  /\ AfterExpiry # <<>>
  /\ AfterExpiry[1].type = ANIMATED_GIFT
  /\ Len(GiftsOf(prevQueue)) >= 2
  /\ calls # <<>>

FirstOther(q) ==
  CHOOSE i \in DOMAIN q :
    q[i].type # ANIMATED_GIFT /\ \A j \in 1..(i - 1) : q[j].type = ANIMATED_GIFT

Without(q, i) == [k \in 1..(Len(q) - 1) |-> IF k < i THEN q[k] ELSE q[k + 1]]

\* C7: a tick that finds an animated gift at the front while an animation is
\* playing or pending removes exactly the first entry that is no animated gift
\* and passes it to addMessage alone, the rest keeping its order; with animated
\* gifts only, it leaves the queue as it was and calls no DOM helper.
C7_SkipAhead ==
  (Ticked /\ prevQueue[1].type = ANIMATED_GIFT /\ Busy) =>
    IF \E i \in DOMAIN prevQueue : prevQueue[i].type # ANIMATED_GIFT
    THEN /\ eventQueue = Without(prevQueue, FirstOther(prevQueue))
         /\ calls = <<[fn |-> "addMessage", event |-> prevQueue[FirstOther(prevQueue)]]>>
    ELSE /\ eventQueue = prevQueue
         /\ calls = <<>>

\* such a tick on (animated gift, other, other): the middle entry went
C7_Witness ==
  /\ Ticked
  /\ Busy
  /\ Len(prevQueue) = 3
  /\ prevQueue[1].type = ANIMATED_GIFT
  /\ prevQueue[2].type # ANIMATED_GIFT
  /\ prevQueue[3].type # ANIMATED_GIFT
  /\ eventQueue = <<prevQueue[1], prevQueue[3]>>

\* an entry the tick can emit: another event at the front, an animated gift at
\* the front with no animation busy, or another event behind an animated gift
Eligible(q) ==
  /\ q # <<>>
  /\ \/ q[1].type # ANIMATED_GIFT
     \/ ~Busy
     \/ \E i \in DOMAIN q : q[i].type # ANIMATED_GIFT

\* C8: a tick calls addMessage at most once, and exactly once when the queue
\* after expiry holds an eligible entry.
C8_OneDisplayPerTick ==
  lastOp = "tick" =>
    /\ CountCalls("addMessage") <= 1
    /\ Eligible(AfterExpiry) => CountCalls("addMessage") = 1

\* a tick with an animation busy and an animated gift at the front that
\* displayed the event behind it
C8_Witness ==
  /\ Ticked
  /\ Busy
  /\ AfterExpiry # <<>>
  /\ AfterExpiry[1].type = ANIMATED_GIFT
  /\ CountCalls("addMessage") = 1
  /\ Len(calls) = 1

\* C9 as claimed: the queue after a tick is as long as before it or one shorter
\* (stated of the ticks that return, which is enough to refute it).
C9_AtMostOneRemoved ==
  (lastOp = "tick" /\ result \in {"true", "false"}) =>
    Len(eventQueue) \in {Len(prevQueue), Len(prevQueue) - 1}

\* C9 amended: a tick removes the messages older than 20 s at the front of the
\* queue and, of the entries behind them, exactly 0 or 1: those entries stay in
\* their order, and the queue after the tick is as long as the queue without its
\* expired front, or one shorter.
C9_AtMostOneBeyondExpired ==
  lastOp = "tick" =>
    /\ IsSubseq(eventQueue, AfterExpiry)
    /\ Len(eventQueue) \in {Len(AfterExpiry), Len(AfterExpiry) - 1}

\* a tick that expired a message and emitted another entry: two removed
C9_Witness ==
  /\ Ticked
  /\ StaleCount(prevQueue, now) >= 1
  /\ Len(eventQueue) = Len(AfterExpiry) - 1
  /\ Len(eventQueue) <= Len(prevQueue) - 2

\* C10: the calls of a tick are none, addMessage(e) alone for another event e,
\* or addMessage(e) then animateGift(e) for an animated gift e; e is the entry
\* the tick removed.
C10_DisplayBeforeAnimation ==
  (lastOp = "tick" /\ calls # <<>>) =>
    LET e == calls[1].event
    IN /\ e \in Range(AfterExpiry)
       /\ e \notin Range(eventQueue)
       /\ Len(eventQueue) = Len(AfterExpiry) - 1
       /\ IF e.type = ANIMATED_GIFT
          THEN calls = <<[fn |-> "addMessage", event |-> e],
                         [fn |-> "animateGift", event |-> e]>>
          ELSE calls = <<[fn |-> "addMessage", event |-> e]>>

\* a tick that emitted an animated gift with other entries left behind
C10_Witness ==
  /\ Ticked
  /\ Len(calls) = 2
  /\ calls[2].fn = "animateGift"
  /\ eventQueue # <<>>

\* ----------------------------------------------------------- claims: timer
\* C11: a tick on an empty queue calls no DOM helper, leaves the queue empty,
\* clears the interval and sets its handle to null.
C11_EmptyTickStopsTimer ==
  (lastOp = "tick" /\ prevQueue = <<>>) =>
    /\ calls = <<>>
    /\ eventQueue = <<>>
    /\ globalInterval = NULL
    /\ intervals = {}

\* a tick that found the queue empty
C11_Witness ==
  /\ lastOp = "tick"
  /\ prevQueue = <<>>
  /\ result = "false"

\* C12 as claimed: a tick whose expiry loop removes every entry of the queue
\* returns normally: no DOM helper call, the queue empty, no error raised.
C12_AllExpiredReturnsIdle ==
  (Ticked /\ AfterExpiry = <<>>) =>
    /\ calls = <<>>
    /\ eventQueue = <<>>
    /\ result # "TypeError"

\* C13 as claimed: the tick that emits the only entry, a message not older
\* than 20 s, calls addMessage once, leaves the queue empty and stops the timer
\* at its end.
C13_TimerStopsWhenLeftEmpty ==
  (Ticked /\ Len(prevQueue) = 1 /\ prevQueue[1].type = MESSAGE /\ AfterExpiry # <<>>) =>
    /\ calls = <<[fn |-> "addMessage", event |-> prevQueue[1]]>>
    /\ eventQueue = <<>>
    /\ globalInterval = NULL
    /\ intervals = {}

\* C13 amended: the timer is stopped by the tick that finds the queue empty,
\* and by no other: the tick that emits the only entry, a message not older
\* than 20 s, calls addMessage once and leaves the queue empty with the timer
\* still running; a tick leaves the timer stopped exactly when it found the
\* queue empty.
C13_TimerStopsWhenFoundEmpty ==
  lastOp = "tick" =>
    /\ (globalInterval = NULL /\ intervals = {}) <=> prevQueue = <<>>
    /\ (Len(prevQueue) = 1 /\ prevQueue[1].type = MESSAGE /\ AfterExpiry # <<>>) =>
         /\ calls = <<[fn |-> "addMessage", event |-> prevQueue[1]]>>
         /\ eventQueue = <<>>
         /\ intervals = {globalInterval}

\* the tick that emitted the only entry, a message, with the timer left running
C13_Witness ==
  /\ Ticked
  /\ Len(prevQueue) = 1
  /\ prevQueue[1].type = MESSAGE
  /\ Len(calls) = 1
  /\ eventQueue = <<>>
  /\ globalInterval # NULL

TimerActive == globalInterval # NULL /\ globalInterval \in intervals

\* C14: in every state reached after an ingest or a tick, a non-empty queue has
\* a running timer; a non-empty ingest leaves the timer running, and a tick
\* that found the queue non-empty does not stop it.
C14_TimerActiveWhileQueued ==
  /\ eventQueue # <<>> => TimerActive
  /\ (lastOp = "ingest" /\ lastPushed > 0) => TimerActive
  /\ Ticked => TimerActive

\* a non-empty ingest on an empty queue after ticks have run
C14_Witness ==
  /\ lastOp = "ingest"
  /\ lastPushed > 0
  /\ prevQueue = <<>>
  /\ now > 0
  /\ eventQueue # <<>>
  /\ TimerActive

\* C15: an ingest of an empty batch changes neither the queue nor the timer.
C15_EmptyBatchNoOp ==
  [][(lastOp' = "ingest" /\ lastPushed' = 0) =>
       UNCHANGED <<eventQueue, globalInterval, intervals>>]_vars

\* an empty batch ingested while the timer was stopped, after ticks have run
C15_Witness ==
  /\ lastOp = "ingest"
  /\ lastPushed = 0
  /\ globalInterval = NULL
  /\ intervals = {}
  /\ now > 0

\* C17: at most one interval is running, and the handle is null exactly when
\* none is; a running interval is the one the handle names.
C17_OneInterval ==
  /\ Cardinality(intervals) <= 1
  /\ globalInterval = NULL <=> intervals = {}
  /\ globalInterval # NULL => intervals = {globalInterval}

\* a non-empty ingest while the timer was running
C17_Witness ==
  /\ lastOp = "ingest"
  /\ lastPushed > 0
  /\ prevQueue # <<>>
  /\ intervals = {globalInterval}

\* C16: once ingestion has stopped, with ticks that keep coming and animations
\* that end, the queue becomes empty and the timer is stopped, and they stay so.
C16_EventuallyDrained ==
  <>[](eventQueue = <<>> /\ globalInterval = NULL /\ intervals = {})

\* the tick that stopped the timer once the queue was drained, at a later
\* clock reading
C16_Witness ==
  /\ lastOp = "tick"
  /\ result = "false"
  /\ now > 0
  /\ eventQueue = <<>>
  /\ intervals = {}

\* ------------------------------------------------------ claims: behaviour
\* C18 as claimed: no message is passed to addMessage when it is older than
\* 20 s at the tick that emits it.
C18_NoStaleMessageDisplayed ==
  lastOp = "tick" =>
    \A i \in DOMAIN calls :
      (calls[i].fn = "addMessage" /\ calls[i].event.type = MESSAGE) =>
        now - calls[i].event.timestamp <= 20 * 1000

\* C19 as claimed: addMessage is called at most once per event id.
C19_DisplayedOncePerId ==
  /\ DisplayedIds(calls) \cap displayed = {}
  /\ Cardinality(DisplayedIds(calls)) = CountCalls("addMessage")

====
